---- MODULE Spec2Model ----
(***************************************************************************)
(* Model of streamlit_dashboard.py: the solar site suitability scorer      *)
(* (create_solar_site_suitability_score) and the ranking that main builds  *)
(* from its result.                                                        *)
(*                                                                         *)
(* Numbers.  Every cell of a frame is a pair <<n, d>>: the rational n/d in *)
(* lowest terms with d > 0, or <<0, 0>> for NaN (an empty CSV cell).  The   *)
(* arithmetic is exact; the float64 rounding of pandas/numpy (at most a    *)
(* few units in the last place) is not modelled.                           *)
(***************************************************************************)
EXTENDS Integers, Sequences, FiniteSets, TLC

VARIABLES pc, rerun, cache, df, df_with_scores, order, ranked_df, error, prev

vars == <<pc, rerun, cache, df, df_with_scores, order, ranked_df, error, prev>>

\* Longest batch (number of CSV rows) load_data returns in the model.
MaxBatch == 3

----------------------------------------------------------------------------
(* Exact arithmetic with NaN, as float64 columns behave in pandas/numpy. *)

Abs(k) == IF k < 0 THEN -k ELSE k

RECURSIVE GCD(_, _)
GCD(a, b) == IF b = 0 THEN a ELSE GCD(b, a % b)

NaN == <<0, 0>>
IsNaN(x) == x[2] = 0

\* n/d in lowest terms, d # 0.
Frac(n, d) ==
    LET s == IF d < 0 THEN -1 ELSE 1
        g == GCD(Abs(n), Abs(d))
    IN  <<(s * n) \div g, (s * d) \div g>>

Num(k) == <<k, 1>>
Zero == Num(0)
One == Num(1)

Add(x, y) == IF IsNaN(x) \/ IsNaN(y) THEN NaN
             ELSE Frac(x[1] * y[2] + y[1] * x[2], x[2] * y[2])
Sub(x, y) == IF IsNaN(x) \/ IsNaN(y) THEN NaN
             ELSE Frac(x[1] * y[2] - y[1] * x[2], x[2] * y[2])
Mul(x, y) == IF IsNaN(x) \/ IsNaN(y) THEN NaN
             ELSE Frac(x[1] * y[1], x[2] * y[2])
\* x / y.  A zero divisor gives NaN here: numpy gives nan or +-inf, and every
\* use below (x * scale + min) turns either into nan.
Div(x, y) == IF IsNaN(x) \/ IsNaN(y) \/ y[1] = 0 THEN NaN
             ELSE Frac(x[1] * y[2], x[2] * y[1])

\* Comparisons are false as soon as one side is NaN, as in IEEE 754.
Lt(x, y) == ~IsNaN(x) /\ ~IsNaN(y) /\ x[1] * y[2] < y[1] * x[2]
Le(x, y) == ~IsNaN(x) /\ ~IsNaN(y) /\ x[1] * y[2] <= y[1] * x[2]

----------------------------------------------------------------------------
(* Frames: a DataFrame is a sequence of rows, a row a record of its cells. *)

Row(region, irr, pop, grid, infra, cost, terrain) ==
    [Region |-> region,
     Solar_Irradiance_kWh_m2_day |-> irr,
     Rural_Pop_Density_per_km2 |-> pop,
     Grid_Access_Percent |-> grid,
     Infrastructure_Index |-> infra,
     Electricity_Cost_USD_per_kWh |-> cost,
     Terrain_Ruggedness_Score |-> terrain]

\* The rows PrimeFrontier_SolarDeploymentDataset.csv may hold in the model.
\* A, B, C are three ordinary regions; D is best and H worst on every feature;
\* I differs from C and scores like it beside A and B; E reports a grid access
\* above 100 percent; F and G have an empty cell.
Regions ==
    { Row("A", Num(5), Num(20), Num(80), Num(50), Frac(10, 100), Num(30)),
      Row("B", Num(7), Num(5), Num(40), Num(70), Frac(20, 100), Num(10)),
      Row("C", Num(6), Num(10), Num(60), Num(60), Frac(15, 100), Num(20)),
      Row("D", Num(7), Num(20), Num(40), Num(70), Frac(20, 100), Num(10)),
      Row("E", Num(6), Num(10), Num(120), Num(60), Frac(15, 100), Num(20)),
      Row("F", NaN, Num(10), Num(60), Num(60), Frac(15, 100), Num(20)),
      Row("G", Num(6), Num(10), Num(60), Num(60), Frac(15, 100), NaN),
      Row("H", Num(5), Num(5), Num(80), Num(50), Frac(10, 100), Num(30)),
      Row("I", Num(6), Num(10), Num(60), Num(70), Frac(10, 100), Num(20)) }

\* Every frame read_csv can return: any rows in any order, none included.
Batches == UNION { [1..n -> Regions] : n \in 0..MaxBatch }

Column(frame, name) == [i \in 1..Len(frame) |-> frame[i][name]]

NonNaN(col) == { col[i] : i \in 1..Len(col) } \ {NaN}
SetMax(S) == CHOOSE x \in S : \A y \in S : Le(y, x)
SetMin(S) == CHOOSE x \in S : \A y \in S : Le(x, y)

\* Series.max(): skipna=True, NaN when nothing is left.
Series_max(col) == IF NonNaN(col) = {} THEN NaN ELSE SetMax(NonNaN(col))

----------------------------------------------------------------------------
(* sklearn.preprocessing.MinMaxScaler, feature_range (0, 1), clip=False.   *)

\* check_array(ensure_min_samples=1) in fit: ValueError on zero samples.
check_array_raises(col) == Len(col) < 1

\* np.nanmin / np.nanmax over the column.
data_min(col) == IF NonNaN(col) = {} THEN NaN ELSE SetMin(NonNaN(col))
data_max(col) == IF NonNaN(col) = {} THEN NaN ELSE SetMax(NonNaN(col))
data_range(col) == Sub(data_max(col), data_min(col))

\* _handle_zeros_in_scale: a zero range is replaced by 1.
handle_zeros_in_scale(r) == IF ~IsNaN(r) /\ r[1] = 0 THEN One ELSE r

scale_(col) == Div(Sub(One, Zero), handle_zeros_in_scale(data_range(col)))
min_(col) == Sub(Zero, Mul(data_min(col), scale_(col)))

\* transform: X *= scale_; X += min_.
transform(col) ==
    LET s == scale_(col)
        m == min_(col)
    IN  [i \in 1..Len(col) |-> Add(Mul(col[i], s), m)]

\* Hand-written (x - min) / (max - min) with no guard for a zero range.
naive_min_max(col) ==
    [i \in 1..Len(col) |->
        Div(Sub(col[i], data_min(col)), data_range(col))]

fit_transform(col) == transform(col)

----------------------------------------------------------------------------
(* create_solar_site_suitability_score                                      *)

\* 100 - Grid_Access_Percent, clamped at 0: what the scorer does not do.
Grid_Access_inverse_clamped(frame) ==
    [i \in 1..Len(frame) |->
        LET v == Sub(Num(100), frame[i].Grid_Access_Percent)
        IN  IF Lt(v, Zero) THEN Zero ELSE v]

\* Grid access taken as it is, not inverted.
Grid_Access_not_inverted(frame) == Column(frame, "Grid_Access_Percent")

Grid_Access_inverse(frame) ==
    [i \in 1..Len(frame) |-> Sub(Num(100), frame[i].Grid_Access_Percent)]

Terrain_Ruggedness_inverse(frame) ==
    LET worst == Series_max(Column(frame, "Terrain_Ruggedness_Score"))
    IN  [i \in 1..Len(frame) |->
            Sub(worst, frame[i].Terrain_Ruggedness_Score)]

Solar_Irradiance_norm(frame) ==
    fit_transform(Column(frame, "Solar_Irradiance_kWh_m2_day"))
Infrastructure_Index_norm(frame) ==
    fit_transform(Column(frame, "Infrastructure_Index"))

\* Electricity cost inverted before scaling (lower cost scoring higher).
Electricity_Cost_inverted_norm(frame) ==
    fit_transform([i \in 1..Len(frame) |->
                      Sub(Zero, frame[i].Electricity_Cost_USD_per_kWh)])

Electricity_Cost_norm(frame) ==
    fit_transform(Column(frame, "Electricity_Cost_USD_per_kWh"))
Grid_Access_inverse_norm(frame) == fit_transform(Grid_Access_inverse(frame))
Rural_Pop_Density_norm(frame) ==
    fit_transform(Column(frame, "Rural_Pop_Density_per_km2"))
Terrain_Ruggedness_inverse_norm(frame) ==
    fit_transform(Terrain_Ruggedness_inverse(frame))

\* Weights with the grid access weight mistyped as 0.3: they sum to 1.1.
weights_mistyped ==
    [Solar_Irradiance_norm |-> Frac(30, 100),
     Grid_Access_inverse_norm |-> Frac(30, 100),
     Infrastructure_Index_norm |-> Frac(15, 100),
     Electricity_Cost_norm |-> Frac(15, 100),
     Rural_Pop_Density_norm |-> Frac(10, 100),
     Terrain_Ruggedness_inverse_norm |-> Frac(10, 100)]

weights ==
    [Solar_Irradiance_norm |-> Frac(30, 100),
     Grid_Access_inverse_norm |-> Frac(20, 100),
     Infrastructure_Index_norm |-> Frac(15, 100),
     Electricity_Cost_norm |-> Frac(15, 100),
     Rural_Pop_Density_norm |-> Frac(10, 100),
     Terrain_Ruggedness_inverse_norm |-> Frac(10, 100)]

\* The weighted sum with NaN terms skipped, as DataFrame.sum(axis=1) would.
Solar_Site_Suitability_Score_skipna(r) ==
    LET term(name) == IF IsNaN(r[name]) THEN Zero
                      ELSE Mul(r[name], weights[name])
    IN  Add(Add(Add(Add(Add(term("Solar_Irradiance_norm"),
                            term("Grid_Access_inverse_norm")),
                        term("Infrastructure_Index_norm")),
                    term("Electricity_Cost_norm")),
                term("Rural_Pop_Density_norm")),
            term("Terrain_Ruggedness_inverse_norm"))

\* The score of a row r that holds its six normalized columns.
Solar_Site_Suitability_Score(r) ==
    LET term(name) == Mul(r[name], weights[name])
    IN  Add(Add(Add(Add(Add(term("Solar_Irradiance_norm"),
                            term("Grid_Access_inverse_norm")),
                        term("Infrastructure_Index_norm")),
                    term("Electricity_Cost_norm")),
                term("Rural_Pop_Density_norm")),
            term("Terrain_Ruggedness_inverse_norm"))

\* The frame the function returns: every input column, the two inverses, the
\* six normalized columns and the score.
create_solar_site_suitability_score(frame) ==
    LET gi == Grid_Access_inverse(frame)
        ti == Terrain_Ruggedness_inverse(frame)
        sn == Solar_Irradiance_norm(frame)
        xn == Infrastructure_Index_norm(frame)
        cn == Electricity_Cost_norm(frame)
        gn == Grid_Access_inverse_norm(frame)
        pn == Rural_Pop_Density_norm(frame)
        tn == Terrain_Ruggedness_inverse_norm(frame)
        norms(i) == [Solar_Irradiance_norm |-> sn[i],
                     Infrastructure_Index_norm |-> xn[i],
                     Electricity_Cost_norm |-> cn[i],
                     Grid_Access_inverse_norm |-> gn[i],
                     Rural_Pop_Density_norm |-> pn[i],
                     Terrain_Ruggedness_inverse_norm |-> tn[i]]
    IN  [i \in 1..Len(frame) |->
            frame[i] @@ norms(i) @@
            [Grid_Access_inverse |-> gi[i],
             Terrain_Ruggedness_inverse |-> ti[i],
             Solar_Site_Suitability_Score |->
                 Solar_Site_Suitability_Score(norms(i))]]

\* The first fit_transform (line 25) raises ValueError on a frame of no rows;
\* nothing before it does.
scorer_never_raises(frame) == FALSE
scorer_raises(frame) ==
    check_array_raises(Column(frame, "Solar_Irradiance_kWh_m2_day"))

\* The caller's frame after the call: the function works on df.copy().
df_aliased(frame, processed) == processed
df_after_call(frame, processed) == frame

----------------------------------------------------------------------------
(* main: the ranked table                                                   *)

\* The orders of the index 0..n-1 of a frame of n rows (here 1..n), for every
\* n a batch can have.
IndexOrdersTable ==
    [n \in 0..MaxBatch |->
        { o \in [1..n -> 1..n] : \A i, j \in 1..n : i # j => o[i] # o[j] }]
IndexOrders(n) == IndexOrdersTable[n]

ascending_default == TRUE
\* sort_values(..., ascending=False)
ascending == FALSE

\* The row orders sort_values(by=score, ascending=False) can give.  kind is
\* left at its default "quicksort", which is not stable: rows of equal score
\* come in an order the numpy build decides.  NaN scores go last
\* (na_position="last"), in index order.
sort_values(scores) ==
    { o \in IndexOrders(Len(scores)) :
        \A i, j \in 1..Len(scores) : i < j =>
            IF IsNaN(scores[o[i]])
            THEN IsNaN(scores[o[j]]) /\ o[i] < o[j]
            ELSE \/ IsNaN(scores[o[j]])
                 \/ IF ascending THEN Le(scores[o[i]], scores[o[j]])
                    ELSE Le(scores[o[j]], scores[o[i]]) }

\* reset_index(drop=True); index += 1; rename_axis("Rank").reset_index()
ranked_table(scored, o) ==
    [i \in 1..Len(scored) |->
        [Rank |-> i,
         Region |-> scored[o[i]].Region,
         Solar_Site_Suitability_Score |->
             scored[o[i]].Solar_Site_Suitability_Score]]

----------------------------------------------------------------------------
(* The script as a state machine.  pc is the position in main; rerun tells *)
(* a rerun from the first run; cache is what st.cache_data holds; order    *)
(* is the index of the frame sort_values returns, before reset_index drops *)
(* it; prev holds the previous run's scored frame and ranked table.        *)

Init ==
    /\ pc = "load"
    /\ rerun = FALSE
    /\ cache = <<>>
    /\ df = <<>>
    /\ df_with_scores = <<>>
    /\ order = <<>>
    /\ ranked_df = <<>>
    /\ error = "none"
    /\ prev = [scored |-> <<>>, ranked |-> <<>>, error |-> "none"]

\* line 68: the first run reads the CSV; a rerun gets the cached frame.
load_data ==
    /\ pc = "load"
    /\ IF ~rerun
       THEN \E b \in Batches : cache' = b /\ df' = b
       ELSE cache' = cache /\ df' = cache
    /\ pc' = "score"
    /\ UNCHANGED <<rerun, df_with_scores, order, ranked_df, error, prev>>

\* line 75, the call returns.
ScoreReturns ==
    /\ pc = "score"
    /\ ~scorer_raises(df)
    /\ df_with_scores' = create_solar_site_suitability_score(df)
    /\ df' = df_after_call(df, df_with_scores')
    /\ pc' = "rank"
    /\ UNCHANGED <<rerun, cache, order, ranked_df, error, prev>>

\* line 75, the call raises: the script run ends with the exception shown.
ScoreRaises ==
    /\ pc = "score"
    /\ scorer_raises(df)
    /\ error' = "ValueError"
    /\ pc' = "error"
    /\ UNCHANGED <<rerun, cache, df, df_with_scores, order, ranked_df, prev>>

\* lines 106-117.  The sort is a function of its input: a rerun over the same
\* scores gives the order the first run gave.
RankRegions ==
    /\ pc = "rank"
    /\ \E o \in sort_values(Column(df_with_scores,
                                   "Solar_Site_Suitability_Score")) :
          /\ rerun => o = order
          /\ order' = o
          /\ ranked_df' = ranked_table(df_with_scores, o)
    /\ pc' = "done"
    /\ UNCHANGED <<rerun, cache, df, df_with_scores, error, prev>>

\* A widget interaction (line 79) makes Streamlit run the script again.
Rerun ==
    /\ pc \in {"done", "error"}
    /\ rerun' = TRUE
    /\ prev' = [scored |-> df_with_scores, ranked |-> ranked_df,
                error |-> error]
    /\ df' = <<>>
    /\ df_with_scores' = <<>>
    /\ ranked_df' = <<>>
    /\ error' = "none"
    /\ pc' = "load"
    /\ UNCHANGED <<cache, order>>

Next == load_data \/ ScoreReturns \/ ScoreRaises \/ RankRegions \/ Rerun

Spec == Init /\ [][Next]_vars

----------------------------------------------------------------------------
(* Vocabulary of the properties                                             *)

Features ==
    { "Solar_Irradiance_kWh_m2_day", "Rural_Pop_Density_per_km2",
      "Grid_Access_Percent", "Infrastructure_Index",
      "Electricity_Cost_USD_per_kWh", "Terrain_Ruggedness_Score" }

\* Main has called the scorer on df and holds its result.
Scored == pc \in {"rank", "done"}
\* The call of this run is over: it returned or raised.
Called == pc \in {"rank", "done", "error"}

NoScore(i) == IsNaN(df_with_scores[i].Solar_Site_Suitability_Score)
ScoreOf(i) == df_with_scores[i].Solar_Site_Suitability_Score

RowComplete(r) == \A f \in Features : ~IsNaN(r[f])
Complete(frame) == \A i \in 1..Len(frame) : RowComplete(frame[i])

\* A valid record: every metric present and in its stated range.
RowValid(r) ==
    /\ RowComplete(r)
    /\ Le(Zero, r.Grid_Access_Percent) /\ Le(r.Grid_Access_Percent, Num(100))
    /\ Le(Zero, r.Solar_Irradiance_kWh_m2_day)
    /\ Le(Zero, r.Electricity_Cost_USD_per_kWh)
    /\ Le(Zero, r.Rural_Pop_Density_per_km2)
Valid(frame) == \A i \in 1..Len(frame) : RowValid(frame[i])

\* Some region reports a grid access above 100 percent.
OutOfRange(frame) ==
    \E i \in 1..Len(frame) : Lt(Num(100), frame[i].Grid_Access_Percent)

InUnit(x) == Le(Zero, x) /\ Le(x, One)

\* The rank sort_values gave the region at input position i.
RankOf(i) == CHOOSE p \in 1..Len(order) : order[p] = i

\* Min-max normalization written out: (x - min) / (max - min) over the batch,
\* 0 when max = min.
MinMax(col, i) ==
    LET lo == SetMin({ col[k] : k \in 1..Len(col) })
        hi == SetMax({ col[k] : k \in 1..Len(col) })
    IN  IF hi = lo THEN Zero
        ELSE <<(col[i][1] * lo[2] - lo[1] * col[i][2]) * hi[2] * lo[2],
               (hi[1] * lo[2] - lo[1] * hi[2]) * col[i][2] * lo[2]>>

\* Equality of two rationals that need not be in lowest terms.
SameNumber(x, y) == x[2] # 0 /\ y[2] # 0 /\ x[1] * y[2] = y[1] * x[2]

ScenarioBatch ==
    << Row("A", Num(5), Num(20), Num(80), Num(50), Frac(10, 100), Num(30)),
       Row("B", Num(7), Num(5), Num(40), Num(70), Frac(20, 100), Num(10)),
       Row("C", Num(6), Num(10), Num(60), Num(60), Frac(15, 100), Num(20)) >>

----------------------------------------------------------------------------
(* Properties                                                               *)

\* C1: for every non-empty batch of valid records (all six metrics present,
\* grid access in [0,100], the others non-negative) every suitability score
\* the scorer returns lies in [0,1].
C1_ScoreInUnitInterval ==
    (Scored /\ Len(df) > 0 /\ Valid(df)) =>
        \A i \in 1..Len(df) : InUnit(ScoreOf(i))

\* A valid batch whose scores reach both ends of [0,1] and a value between.
C1_Witness ==
    /\ Scored /\ Len(df) = 3 /\ Valid(df)
    /\ \E i, j, k \in 1..3 :
          /\ ScoreOf(i) = One /\ ScoreOf(j) = Zero
          /\ Lt(Zero, ScoreOf(k)) /\ Lt(ScoreOf(k), One)

\* C2: for a non-empty batch of N records the ranked table has the same N
\* regions, its ranks are 1..N, each once, and the score at rank r is greater
\* than or equal to the score at rank r+1.
C2_RankedTable ==
    (pc = "done" /\ Len(df) > 0 /\ Complete(df)) =>
        /\ Len(ranked_df) = Len(df)
        /\ \A r \in 1..Len(df) :
              Cardinality({ i \in 1..Len(ranked_df) : ranked_df[i].Rank = r })
                  = 1
        /\ \A i \in 1..Len(ranked_df) : ranked_df[i].Rank = i
        /\ \A i \in 1..Len(df) :
              Cardinality({ k \in 1..Len(ranked_df) :
                              ranked_df[k].Region = df[i].Region })
                  = Cardinality({ k \in 1..Len(df) :
                                    df[k].Region = df[i].Region })
        /\ \A r \in 1..(Len(ranked_df) - 1) :
              Le(ranked_df[r + 1].Solar_Site_Suitability_Score,
                 ranked_df[r].Solar_Site_Suitability_Score)

\* Three regions of three different scores, read in an order that is not the
\* ranked one.
C2_Witness ==
    /\ pc = "done" /\ Len(df) = 3 /\ Complete(df)
    /\ Lt(ranked_df[2].Solar_Site_Suitability_Score,
          ranked_df[1].Solar_Site_Suitability_Score)
    /\ Lt(ranked_df[3].Solar_Site_Suitability_Score,
          ranked_df[2].Solar_Site_Suitability_Score)
    /\ order[1] = 3

\* C3, as claimed: of two regions with equal scores the one earlier in the
\* input batch gets the smaller rank.
C3_StableRanking ==
    (pc = "done" /\ Complete(df)) =>
        \A i, j \in 1..Len(df) :
            (i < j /\ ScoreOf(i) = ScoreOf(j)) => RankOf(i) < RankOf(j)

\* C3, as the code has it: the rank follows the score alone; a region of
\* strictly higher score gets the smaller rank, wherever it was in the input.
C3_RankFollowsScore ==
    (pc = "done" /\ Complete(df)) =>
        \A i, j \in 1..Len(df) :
            Lt(ScoreOf(j), ScoreOf(i)) => RankOf(i) < RankOf(j)

\* Two regions tie and a third scores higher although it was read last.
C3_Witness ==
    /\ pc = "done" /\ Len(df) = 3 /\ Complete(df)
    /\ ScoreOf(1) = ScoreOf(2)
    /\ Lt(ScoreOf(1), ScoreOf(3))
    /\ RankOf(3) = 1

\* C4, as claimed: a batch of zero records fails with EmptyBatchError and
\* gives no scored output.
C4_EmptyBatchError ==
    (Called /\ Len(df) = 0) =>
        /\ pc = "error" /\ error = "EmptyBatchError"
        /\ df_with_scores = <<>> /\ ranked_df = <<>>

\* C4, as the code has it: a batch of zero records fails with the ValueError
\* MinMaxScaler raises, and gives no scored output.
C4_EmptyBatchValueError ==
    (Called /\ Len(df) = 0) =>
        /\ pc = "error" /\ error = "ValueError"
        /\ df_with_scores = <<>> /\ ranked_df = <<>>

\* The scorer was called on the empty batch and raised.
C4_Witness == pc = "error" /\ Len(df) = 0 /\ error = "ValueError"

\* C5, as claimed: a batch with a record that lacks a metric fails with
\* MissingFieldError and gives no scored batch.
C5_MissingFieldError ==
    (Called /\ ~Complete(df)) =>
        /\ pc = "error" /\ error = "MissingFieldError"
        /\ df_with_scores = <<>>

\* C5, as the code has it: such a batch is scored without error; the result
\* has every record, the score is NaN for exactly the records that lack a
\* metric.
C5_MissingMetricScoresNaN ==
    (Called /\ ~Complete(df)) =>
        /\ Scored /\ error = "none"
        /\ Len(df_with_scores) = Len(df)
        /\ \A i \in 1..Len(df) : NoScore(i) <=> ~RowComplete(df[i])

\* A batch of three with one record lacking a metric, scored: that record has
\* no score and the other two have different ones.
C5_Witness ==
    /\ Scored /\ Len(df) = 3
    /\ ~RowComplete(df[2]) /\ NoScore(2)
    /\ Lt(ScoreOf(1), ScoreOf(3))

\* The input column a normalized column is computed from, as the batch has it.
ZeroRange(frame, f) ==
    \A i, j \in 1..Len(frame) : frame[i][f] = frame[j][f]

\* C6: whenever a feature is the same for every region of the batch (batch
\* max = batch min) the scorer succeeds and the feature's normalized value is
\* 0 for every region; a batch of one record gets the score 0.
C6_ZeroRangeFallback ==
    (Called /\ Len(df) > 0 /\ Complete(df)) =>
        /\ Scored /\ error = "none"
        /\ \A i \in 1..Len(df) :
              /\ ZeroRange(df, "Solar_Irradiance_kWh_m2_day") =>
                    df_with_scores[i].Solar_Irradiance_norm = Zero
              /\ ZeroRange(df, "Grid_Access_Percent") =>
                    df_with_scores[i].Grid_Access_inverse_norm = Zero
              /\ ZeroRange(df, "Infrastructure_Index") =>
                    df_with_scores[i].Infrastructure_Index_norm = Zero
              /\ ZeroRange(df, "Electricity_Cost_USD_per_kWh") =>
                    df_with_scores[i].Electricity_Cost_norm = Zero
              /\ ZeroRange(df, "Rural_Pop_Density_per_km2") =>
                    df_with_scores[i].Rural_Pop_Density_norm = Zero
              /\ ZeroRange(df, "Terrain_Ruggedness_Score") =>
                    df_with_scores[i].Terrain_Ruggedness_inverse_norm = Zero
        /\ Len(df) = 1 => ScoreOf(1) = Zero

\* Two different regions share their irradiance and differ in population
\* density: the first normalizes to 0 for both, the second does not.
C6_Witness ==
    /\ Scored /\ Len(df) = 2 /\ Complete(df)
    /\ ZeroRange(df, "Solar_Irradiance_kWh_m2_day")
    /\ ~ZeroRange(df, "Rural_Pop_Density_per_km2")
    /\ df_with_scores[1].Solar_Irradiance_norm = Zero
    /\ df_with_scores[1].Rural_Pop_Density_norm = One

\* C7: for the batch A, B, C of the scenario the normalized irradiance,
\* inverted grid access, inverted terrain, infrastructure and cost are A = 0,
\* B = 1, C = 1/2, the normalized population density is A = 1, B = 0,
\* C = 1/3, and the scores are ordered B > C > A.
C7_Scenario ==
    (Scored /\ df = ScenarioBatch) =>
        /\ \A n \in { "Solar_Irradiance_norm", "Grid_Access_inverse_norm",
                      "Terrain_Ruggedness_inverse_norm",
                      "Infrastructure_Index_norm", "Electricity_Cost_norm" } :
              /\ df_with_scores[1][n] = Zero
              /\ df_with_scores[2][n] = One
              /\ df_with_scores[3][n] = Frac(1, 2)
        /\ df_with_scores[1].Rural_Pop_Density_norm = One
        /\ df_with_scores[2].Rural_Pop_Density_norm = Zero
        /\ df_with_scores[3].Rural_Pop_Density_norm = Frac(1, 3)
        /\ Lt(ScoreOf(3), ScoreOf(2))
        /\ Lt(ScoreOf(1), ScoreOf(3))

\* The scenario batch was scored and ranked: B, C, A.
C7_Witness ==
    /\ pc = "done" /\ df = ScenarioBatch
    /\ ranked_df[1].Region = "B"
    /\ ranked_df[2].Region = "C"
    /\ ranked_df[3].Region = "A"

C9_ScoreFormula ==
    (Scored /\ Len(df) > 0 /\ Complete(df)) =>
        LET N == Len(df)
            col(f) == [k \in 1..N |-> df[k][f]]
            grid == [k \in 1..N |-> Sub(Num(100), df[k].Grid_Access_Percent)]
            worst == SetMax({ df[k].Terrain_Ruggedness_Score : k \in 1..N })
            terr == [k \in 1..N |->
                        Sub(worst, df[k].Terrain_Ruggedness_Score)]
            cost == col("Electricity_Cost_USD_per_kWh")
            expected(i) ==
                Add(Add(Add(Add(Add(
                    Mul(Frac(30, 100),
                        MinMax(col("Solar_Irradiance_kWh_m2_day"), i)),
                    Mul(Frac(20, 100), MinMax(grid, i))),
                    Mul(Frac(15, 100),
                        MinMax(col("Infrastructure_Index"), i))),
                    Mul(Frac(15, 100), MinMax(cost, i))),
                    Mul(Frac(10, 100),
                        MinMax(col("Rural_Pop_Density_per_km2"), i))),
                    Mul(Frac(10, 100), MinMax(terr, i)))
            costTerm(i) ==
                Mul(Frac(15, 100), df_with_scores[i].Electricity_Cost_norm)
        IN  \A i \in 1..N :
               /\ SameNumber(ScoreOf(i), expected(i))
               /\ ~ZeroRange(df, "Electricity_Cost_USD_per_kWh") =>
                     /\ (\A k \in 1..N : Le(cost[k], cost[i])) =>
                            costTerm(i) = Frac(15, 100)
                     /\ (\A k \in 1..N : Le(cost[i], cost[k])) =>
                            costTerm(i) = Zero

\* Three regions of three different electricity costs, scored: the cheapest
\* gets nothing for its cost and the dearest 0.15.
C9_Witness ==
    /\ Scored /\ Len(df) = 3 /\ Complete(df)
    /\ Lt(df[1].Electricity_Cost_USD_per_kWh,
          df[3].Electricity_Cost_USD_per_kWh)
    /\ Lt(df[3].Electricity_Cost_USD_per_kWh,
          df[2].Electricity_Cost_USD_per_kWh)
    /\ df_with_scores[1].Electricity_Cost_norm = Zero
    /\ df_with_scores[2].Electricity_Cost_norm = One
    /\ ~ZeroRange(df, "Rural_Pop_Density_per_km2")

\* A batch with a grid access above 100 percent is scored without error and
\* the inverted grid access of such a region is 100 - grid, below 0.
NotRejectedNotClamped ==
    (Called /\ Complete(df) /\ OutOfRange(df)) =>
        /\ Scored /\ error = "none"
        /\ \A i \in 1..Len(df) :
              Lt(Num(100), df[i].Grid_Access_Percent) =>
                  /\ df_with_scores[i].Grid_Access_inverse
                         = Sub(Num(100), df[i].Grid_Access_Percent)
                  /\ Lt(df_with_scores[i].Grid_Access_inverse, Zero)

\* C10, as claimed: such a batch is not rejected, its inverted grid access is
\* negative and not clamped, and there is such a batch with a suitability
\* score outside [0,1].
C10_MayLeaveUnitInterval ==
    /\ NotRejectedNotClamped
    /\ \E b \in Batches :
          /\ Complete(b) /\ OutOfRange(b)
          /\ \E i \in 1..Len(b) :
                ~InUnit(create_solar_site_suitability_score(b)[i]
                            .Solar_Site_Suitability_Score)

\* C10, as the code has it: such a batch is not rejected, its inverted grid
\* access is negative and not clamped, and every suitability score still
\* lies in [0,1], the normalization being relative to the batch.
C10_StaysInUnitInterval ==
    /\ NotRejectedNotClamped
    /\ (Scored /\ Complete(df) /\ OutOfRange(df)) =>
          \A i \in 1..Len(df) : InUnit(ScoreOf(i))

\* A batch with a region of grid access 120 beside ordinary regions, scored:
\* the inverse is -20 and normalizes to 0, another region's to 1.
C10_Witness ==
    /\ Scored /\ Len(df) = 3 /\ Complete(df)
    /\ df[2].Grid_Access_Percent = Num(120)
    /\ df_with_scores[2].Grid_Access_inverse = Num(-20)
    /\ df_with_scores[2].Grid_Access_inverse_norm = Zero
    /\ df_with_scores[1].Grid_Access_inverse_norm = One
    /\ Lt(Zero, ScoreOf(2))

====
